---- MODULE Spec2Model ----
(***************************************************************************)
(* MoonTVPlus: the OpenList playback resolver (route.ts, GET) and the      *)
(* metadata cascade of the DetailPanel component (fetchDetail).            *)
(*                                                                         *)
(* Text is modelled as a sequence of characters and of fragments that hold *)
(* none of the characters the code looks for, so that joining, matching    *)
(* and trimming are computed as the code computes them.  Non-ASCII         *)
(* characters of the source are written in pinyin: "di" is the ordinal     *)
(* prefix, "ji" and "bu" the season words, "yi" .. "shi" the numerals one  *)
(* to ten.  An optional value (null, undefined) is the empty sequence      *)
(* <<>>, a present value v is <<v>>.                                       *)
(***************************************************************************)
EXTENDS Integers, Sequences, FiniteSets, TLC

VARIABLES
  \* ---- playback resolver (route.ts) ----
  subscribeToken,  \* process.env.TVBOX_SUBSCRIBE_TOKEN, optional
  request,         \* the request being served
  hpc,             \* position of the handler: idle, config, file, done
  openListConfig,  \* config.OpenListConfig as read by this request, optional
  fileResponse,    \* the upstream getFile answer of this request, optional
  responses,       \* the responses the handler returned for this request
  escaped,         \* the exceptions that left the handler for this request
  thrown,          \* the exception raised inside the try block, optional
  configReads,     \* number of getConfig calls of this request
  getFileCalls,    \* the paths passed to getFile by this request
  \* ---- the remote path as a function of its inputs ----
  joinIn,          \* [root, folder, file] under test
  joinOut,         \* optional: the joined path
  \* ---- the season marker as a function of its inputs ----
  seasonIn,        \* [title, seasonNumber] under test
  seasonOut,       \* optional: [searchTitle, season]
  \* ---- DetailPanel ----
  isOpen,          \* prop isOpen
  props,           \* the other props of the current render
  detailData,      \* useState detailData, optional
  loading,         \* useState loading
  error,           \* useState error, optional
  res              \* the started resolutions (runs of fetchDetail)

playVars == <<subscribeToken, request, hpc, openListConfig, fileResponse,
              responses, escaped, thrown, configReads, getFileCalls>>
joinVars == <<joinIn, joinOut>>
seasonVars == <<seasonIn, seasonOut>>
panelVars == <<isOpen, props, detailData, loading, error, res>>
vars == <<playVars, joinVars, seasonVars, panelVars>>

Null == <<>>
Some(v) == <<v>>

(***************************************************************************)
(* Text helpers.                                                           *)
(***************************************************************************)
\* String.prototype.endsWith for a one-character suffix.
EndsWith(s, c) == Len(s) > 0 /\ s[Len(s)] = c

\* All texts over alphabet A of length at most n.
RECURSIVE TextsUpTo(_, _)
TextsUpTo(A, n) ==
  IF n = 0 THEN {<<>>}
  ELSE LET shorter == TextsUpTo(A, n - 1)
       IN  shorter \cup {Append(s, c) : s \in shorter, c \in A}

(***************************************************************************)
(* Playback resolver: the remote path (route.ts 60-62).                    *)
(***************************************************************************)
\* line 60: openListConfig.RootPath || '/'
RootPathOrDefault(rootPath) == IF rootPath = <<>> THEN <<"/">> ELSE rootPath

\* line 61 with the missing-slash test inverted.
MutFolderPath(rootPath, folderName) ==
  rootPath \o (IF EndsWith(rootPath, "/") THEN <<"/">> ELSE <<>>) \o folderName

\* line 61
FolderPath(rootPath, folderName) ==
  rootPath \o (IF EndsWith(rootPath, "/") THEN <<>> ELSE <<"/">>) \o folderName

\* line 62
FilePath(configuredRoot, folderName, fileName) ==
  FolderPath(RootPathOrDefault(configuredRoot), folderName) \o <<"/">> \o fileName

(***************************************************************************)
(* Playback resolver: GET /api/openlist/play/{token} (route.ts 18-94).     *)
(***************************************************************************)
Tokens == {"", "tok1", "tok2"}
SubscribeTokens == {Null, Some(""), Some("tok1")}
\* getAuthInfoFromCookie: null, or the session's auth info.
AuthInfos == {Null, Some([username |-> ""]), Some([username |-> "alice"])}
\* searchParams.get: null, or the parameter's text.
FolderParams == {Null, Some(<<>>), Some(<<"A">>)}
FileNameParams == {Null, Some(<<>>), Some(<<"b">>)}
Requests ==
  [token : Tokens, authInfo : AuthInfos, folder : FolderParams,
   fileName : FileNameParams]

RootPaths == {<<>>, <<"/">>, <<"/", "x">>, <<"/", "x", "/">>}
OpenListConfigs ==
  {Null} \cup
  {Some(c) : c \in [Enabled : BOOLEAN, URL : {"", "http://openlist"},
                    Username : {"", "admin"}, Password : {"", "secret"},
                    RootPath : RootPaths]}

\* A URL text is a sequence of its parts: scheme, authority, path.
RawUrls ==
  { <<>>,
    <<"/d", "/v1">>,
    <<"http:", "//cdn", "/v1">>,
    <<"http:", "//cdn", "/v2">>,
    <<"HTTP:", "//CDN", "/v1">> }
FileResponses ==
  [code : {200, 500}, message : {"msg"},
   data : {Null} \cup {Some([raw_url |-> u]) : u \in RawUrls}]

\* A call of a collaborator either returns a value or throws an Error.
Returns(v) == [throws |-> FALSE, value |-> v, message |-> ""]
Throws(m) == [throws |-> TRUE, value |-> Null, message |-> m]
GetConfigOutcomes ==
  {Returns(c) : c \in OpenListConfigs} \cup {Throws("getConfig failed")}
GetFileOutcomes ==
  {Returns(f) : f \in FileResponses} \cup {Throws("getFile failed")}
ClientOutcomes == {Returns(Null), Throws("client failed")}

\* NextResponse.json(body, {status})
JsonResponse(status, errorText, details) ==
  [kind |-> "json", status |-> status, error |-> errorText,
   details |-> details, location |-> <<>>]
\* The response NextResponse.redirect builds: Location is the parsed URL's text.
RedirectResponse(location) ==
  [kind |-> "redirect", status |-> 307, error |-> "", details |-> Null,
   location |-> location]

\* What a step of the handler leaves behind: a returned response or an
\* exception that propagates to the caller of GET.
Respond(r) == [resp |-> <<r>>, esc |-> <<>>]
Propagate(m) == [resp |-> <<>>, esc |-> <<m>>]

\* The catch block rethrowing instead of answering.
MutCaught(m) == Propagate(m)

\* lines 87-93: catch (error) -> 500 { error, details: error.message }
Caught(m) == Respond(JsonResponse(500, "fetch failed", Some(m)))

\* line 31 without the test that the secret is set and non-empty.
MutHasValidToken(secret, requestToken) ==
  requestToken = (IF secret = Null THEN "" ELSE secret[1])

\* line 31: subscribeToken && requestToken === subscribeToken
HasValidToken(secret, requestToken) ==
  secret # Null /\ secret[1] # "" /\ requestToken = secret[1]

\* line 33: authInfo && authInfo.username
HasValidAuth(authInfo) == authInfo # Null /\ authInfo[1].username # ""

\* line 43 testing for null only.
MutMissing(param) == param = Null

\* line 43: !folderName, !fileName (null or the empty string)
Missing(param) == param = Null \/ param[1] = <<>>

\* lines 50-56
NotConfigured(olc) ==
  \/ olc = Null
  \/ ~olc[1].Enabled
  \/ olc[1].URL = ""
  \/ olc[1].Username = ""
  \/ olc[1].Password = ""

\* line 73 testing raw_url only.
MutUpstreamFailed(fr) == fr.data = Null \/ fr.data[1].raw_url = <<>>

\* line 73: fileResponse.code !== 200 || !fileResponse.data.raw_url, for a
\* response whose data is present when it is read.
UpstreamFailed(fr) == fr.code # 200 \/ fr.data[1].raw_url = <<>>

\* line 73: reading .raw_url of a missing data object throws a TypeError;
\* data is read only when the code is 200.
ReadsMissingData(fr) == fr.code = 200 /\ fr.data = Null

\* URL parsing lower-cases the scheme and the host.
Lower(part) ==
  CASE part = "HTTP:" -> "http:"
    [] part = "//CDN" -> "//cdn"
    [] OTHER -> part
\* line 86: NextResponse.redirect accepts absolute URLs only.
IsAbsoluteUrl(u) == Len(u) > 0 /\ Lower(u[1]) \in {"http:", "https:"}
\* line 86: the Location header is the text of the parsed URL.
SerializeUrl(u) == [i \in 1..Len(u) |-> IF i <= 2 THEN Lower(u[i]) ELSE u[i]]

\* A step inside the try block: it throws, and the catch block answers, or
\* it returns a response.
Raise(m) == [thrown |-> Some(m), out |-> Caught(m)]
Return(r) == [thrown |-> Null, out |-> Respond(r)]

\* lines 22-47: from entry to the await of getConfig().
GET(req) ==
  /\ hpc \in {"idle", "done"}
  /\ request' = req
  /\ openListConfig' = Null
  /\ fileResponse' = Null
  /\ getFileCalls' = <<>>
  /\ escaped' = <<>>
  /\ thrown' = Null
  /\ IF ~HasValidToken(subscribeToken, req.token) /\ ~HasValidAuth(req.authInfo)
     THEN /\ responses' = <<JsonResponse(401, "unauthorized", Null)>>
          /\ hpc' = "done"
          /\ configReads' = 0
     ELSE IF Missing(req.folder) \/ Missing(req.fileName)
     THEN /\ responses' = <<JsonResponse(400, "missing parameters", Null)>>
          /\ hpc' = "done"
          /\ configReads' = 0
     ELSE /\ responses' = <<>>
          /\ hpc' = "config"
          /\ configReads' = 1
  /\ UNCHANGED <<subscribeToken, joinVars, seasonVars, panelVars>>

\* lines 47-71: getConfig() settles; up to the await of client.getFile().
GetConfigSettles(outcome, client) ==
  /\ hpc = "config"
  /\ IF outcome.throws
     THEN /\ responses' = Raise(outcome.message).out.resp
          /\ escaped' = Raise(outcome.message).out.esc
          /\ thrown' = Raise(outcome.message).thrown
          /\ hpc' = "done"
          /\ UNCHANGED <<openListConfig, getFileCalls>>
     ELSE /\ openListConfig' = outcome.value
          /\ IF NotConfigured(outcome.value)
             THEN /\ responses' = <<JsonResponse(400, "not configured", Null)>>
                  /\ hpc' = "done"
                  /\ UNCHANGED <<escaped, thrown, getFileCalls>>
             ELSE IF client.throws
             THEN /\ responses' = Raise(client.message).out.resp
                  /\ escaped' = Raise(client.message).out.esc
                  /\ thrown' = Raise(client.message).thrown
                  /\ hpc' = "done"
                  /\ UNCHANGED getFileCalls
             ELSE /\ getFileCalls' =
                       Append(getFileCalls,
                              FilePath(outcome.value[1].RootPath,
                                       request.folder[1], request.fileName[1]))
                  /\ hpc' = "file"
                  /\ UNCHANGED <<responses, escaped, thrown>>
  /\ UNCHANGED <<subscribeToken, request, fileResponse, configReads,
                 joinVars, seasonVars, panelVars>>

\* lines 71-86 once getFile() has settled.
FileOutcome(outcome) ==
  IF outcome.throws THEN Raise(outcome.message)
  ELSE IF ReadsMissingData(outcome.value)
  THEN Raise("cannot read properties of null")
  ELSE IF UpstreamFailed(outcome.value)
  THEN Return(JsonResponse(500, "no play url", Null))
  ELSE IF ~IsAbsoluteUrl(outcome.value.data[1].raw_url)
  THEN Raise("URL is malformed")
  ELSE Return(RedirectResponse(SerializeUrl(outcome.value.data[1].raw_url)))

\* lines 71-93: getFile() settles; the answer is built.
GetFileSettles(outcome) ==
  /\ hpc = "file"
  /\ fileResponse' = IF outcome.throws THEN Null ELSE Some(outcome.value)
  /\ responses' = FileOutcome(outcome).out.resp
  /\ escaped' = FileOutcome(outcome).out.esc
  /\ thrown' = FileOutcome(outcome).thrown
  /\ hpc' = "done"
  /\ UNCHANGED <<subscribeToken, request, openListConfig, configReads,
                 getFileCalls, joinVars, seasonVars, panelVars>>

(***************************************************************************)
(* Idle values of the units a specification does not exercise.             *)
(***************************************************************************)
PlayIdle ==
  /\ subscribeToken = Null
  /\ request = Null
  /\ hpc = "idle"
  /\ openListConfig = Null
  /\ fileResponse = Null
  /\ responses = <<>>
  /\ escaped = <<>>
  /\ thrown = Null
  /\ configReads = 0
  /\ getFileCalls = <<>>
JoinIdle == joinIn = Null /\ joinOut = Null
SeasonIdle == seasonIn = Null /\ seasonOut = Null
PanelIdle ==
  /\ isOpen = FALSE
  /\ props = Null
  /\ detailData = Null
  /\ loading = FALSE
  /\ error = Null
  /\ res = <<>>

(***************************************************************************)
(* SpecPlay: the playback resolver serving one request after another.      *)
(***************************************************************************)
InitPlay ==
  /\ subscribeToken \in SubscribeTokens
  /\ request = Null
  /\ hpc = "idle"
  /\ openListConfig = Null
  /\ fileResponse = Null
  /\ responses = <<>>
  /\ escaped = <<>>
  /\ thrown = Null
  /\ configReads = 0
  /\ getFileCalls = <<>>
  /\ JoinIdle /\ SeasonIdle /\ PanelIdle

NextPlay ==
  \/ \E req \in Requests : GET(req)
  \/ \E outcome \in GetConfigOutcomes, client \in ClientOutcomes :
       GetConfigSettles(outcome, client)
  \/ \E outcome \in GetFileOutcomes : GetFileSettles(outcome)

SpecPlay == InitPlay /\ [][NextPlay]_vars

\* The request has been answered.
Answered == hpc = "done"
\* The one response of an answered request.
TheResponse == responses[1]

\* The request passes neither test of lines 31-36.
NoTokenNoSession ==
  /\ ~(/\ subscribeToken # Null
       /\ subscribeToken[1] # ""
       /\ request.token = subscribeToken[1])
  /\ ~(request.authInfo # Null /\ request.authInfo[1].username # "")
\* The folder or the fileName parameter is absent or empty.
LacksParameter ==
  \/ request.folder \in {Null, Some(<<>>)}
  \/ request.fileName \in {Null, Some(<<>>)}

\* C1: a request whose path token is not the configured non-empty secret and
\* whose cookie gives no session with a user name is answered 401, whatever
\* its folder and fileName and whatever the configuration; the configuration
\* is not read and getFile is not called.
C1_Unauthorized401 ==
  (hpc # "idle" /\ NoTokenNoSession) =>
    /\ Answered
    /\ responses = <<JsonResponse(401, "unauthorized", Null)>>
    /\ configReads = 0
    /\ openListConfig = Null
    /\ getFileCalls = <<>>

\* C1 witness: the secret is set, the token differs from it, the cookie holds
\* a session without user name, both parameters are present, and the request
\* has been answered.
C1_Witness ==
  /\ Answered
  /\ NoTokenNoSession
  /\ subscribeToken = Some("tok1")
  /\ request.token = "tok2"
  /\ request.authInfo = Some([username |-> ""])
  /\ ~LacksParameter
  /\ TheResponse.status = 401

\* C2 as stated: every request without folder or fileName is answered 400
\* and calls getFile never.
C2_Original ==
  (hpc # "idle" /\ LacksParameter) =>
    /\ Answered
    /\ TheResponse.status = 400
    /\ getFileCalls = <<>>

\* C2 amended: a request without folder or fileName that passes the
\* authorization test of line 36 is answered 400, one that does not pass it
\* is answered 401; in both cases the configuration is not read and getFile
\* is not called.
C2_MissingParameter ==
  (hpc # "idle" /\ LacksParameter) =>
    /\ Answered
    /\ Len(responses) = 1
    /\ TheResponse.kind = "json"
    /\ TheResponse.status = (IF NoTokenNoSession THEN 401 ELSE 400)
    /\ configReads = 0
    /\ getFileCalls = <<>>

\* C2 witness: an authorized request with an empty fileName, answered 400.
C2_Witness ==
  /\ Answered
  /\ ~NoTokenNoSession
  /\ request.folder = Some(<<"A">>)
  /\ request.fileName = Some(<<>>)
  /\ TheResponse.status = 400

\* getFile has answered this request's call.
UpstreamAnswered == Answered /\ fileResponse # Null
\* The upstream answer has code 200 and a non-empty raw_url.
UpstreamOk ==
  /\ fileResponse[1].code = 200
  /\ fileResponse[1].data # Null
  /\ fileResponse[1].data[1].raw_url # <<>>

\* C3 as stated: with an upstream answer, the response is a redirect iff the
\* answer has code 200 and a non-empty raw_url, the target being exactly
\* raw_url; otherwise it is 500.
C3_Original ==
  UpstreamAnswered =>
    IF UpstreamOk
    THEN /\ TheResponse.kind = "redirect"
         /\ TheResponse.location = fileResponse[1].data[1].raw_url
    ELSE TheResponse.kind = "json" /\ TheResponse.status = 500

\* raw_url is an absolute URL: it starts with a scheme.
RawUrlAbsolute == fileResponse[1].data[1].raw_url[1] \in {"http:", "HTTP:"}
\* raw_url is written as URL parsing writes it back.
RawUrlCanonical ==
  \A i \in 1..Len(fileResponse[1].data[1].raw_url) :
    fileResponse[1].data[1].raw_url[i] \notin {"HTTP:", "//CDN"}

\* C3 amended: with an upstream answer, the response is a redirect iff the
\* answer has code 200 and a non-empty raw_url that is an absolute URL; the
\* target is raw_url as URL parsing writes it back, which is raw_url itself
\* when raw_url is in that form; in every other case the response is 500 and
\* no redirect is issued.
C3_RedirectIffUpstreamOk ==
  UpstreamAnswered =>
    /\ Len(responses) = 1
    /\ IF UpstreamOk /\ RawUrlAbsolute
       THEN /\ TheResponse.kind = "redirect"
            /\ TheResponse.location = SerializeUrl(fileResponse[1].data[1].raw_url)
            /\ RawUrlCanonical =>
                 TheResponse.location = fileResponse[1].data[1].raw_url
       ELSE TheResponse.kind = "json" /\ TheResponse.status = 500

\* C3 witness: an upstream answer with code 200 and a canonical absolute
\* raw_url, answered by a redirect.
C3_Witness ==
  /\ UpstreamAnswered
  /\ UpstreamOk
  /\ fileResponse[1].data[1].raw_url = <<"http:", "//cdn", "/v2">>
  /\ TheResponse.kind = "redirect"

MaxPathLen == 2
PathAlphabet == {"/", "x"}
PathTexts == TextsUpTo(PathAlphabet, MaxPathLen)
\* The example of the specification: root /x/, folder A, file b.mp4.
JoinExample ==
  [root |-> <<"/", "x", "/">>, folder |-> <<"A">>, file |-> <<"b.mp4">>]
\* The handler joins only non-empty folder and file names (line 43).
JoinInputs ==
  [root : PathTexts, folder : PathTexts \ {<<>>}, file : PathTexts \ {<<>>}]
    \cup {JoinExample}

InitJoin ==
  /\ joinIn \in JoinInputs
  /\ joinOut = Null
  /\ PlayIdle /\ SeasonIdle /\ PanelIdle

\* lines 60-62 applied to the input.
Join ==
  /\ joinOut = Null
  /\ joinOut' = Some(FilePath(joinIn.root, joinIn.folder, joinIn.file))
  /\ UNCHANGED <<joinIn, playVars, seasonVars, panelVars>>

NextJoin == Join

SpecJoin == InitJoin /\ [][NextJoin]_vars

\* A text without its leading slashes, without its trailing slashes.
RECURSIVE StripLeading(_)
StripLeading(s) ==
  IF s # <<>> /\ Head(s) = "/" THEN StripLeading(Tail(s)) ELSE s
RECURSIVE StripTrailing(_)
StripTrailing(s) ==
  IF s # <<>> /\ s[Len(s)] = "/"
  THEN StripTrailing(SubSeq(s, 1, Len(s) - 1))
  ELSE s
\* Root, folder and file with exactly one slash at each of the two joins.
OneSlashJoin(in) ==
  StripTrailing(IF in.root = <<>> THEN <<"/">> ELSE in.root) \o <<"/">>
    \o StripLeading(StripTrailing(in.folder)) \o <<"/">>
    \o StripLeading(in.file)

\* C5 as stated: for every root path, folder name and file name the path is
\* root (default /), folder and file joined with exactly one slash at each of
\* the two joins; root /x/, folder A, file b.mp4 give /x/A/b.mp4.
C5_Original ==
  joinOut # Null =>
    /\ joinOut[1] = OneSlashJoin(joinIn)
    /\ joinIn = JoinExample => joinOut[1] = <<"/", "x", "/", "A", "/", "b.mp4">>

\* The inputs on which no slash needs removing: the root ends in at most one
\* slash, the folder neither begins nor ends with one, the file does not
\* begin with one.
JoinWellFormed ==
  /\ ~(Len(joinIn.root) >= 2
       /\ joinIn.root[Len(joinIn.root)] = "/"
       /\ joinIn.root[Len(joinIn.root) - 1] = "/")
  /\ joinIn.folder[1] # "/"
  /\ joinIn.folder[Len(joinIn.folder)] # "/"
  /\ joinIn.file[1] # "/"

\* C5 amended: the path is the root (default /), followed by a slash unless
\* the root already ends with one, the folder name, one slash and the file
\* name, nothing being removed; it has exactly one slash at each of the two
\* joins whenever the root ends in at most one slash, the folder name neither
\* begins nor ends with a slash and the file name does not begin with one;
\* root /x/, folder A, file b.mp4 give /x/A/b.mp4.
C5_JoinedPath ==
  joinOut # Null =>
    LET r == IF joinIn.root = <<>> THEN <<"/">> ELSE joinIn.root
        rs == IF r[Len(r)] = "/" THEN r ELSE Append(r, "/")
    IN  /\ joinOut[1] = rs \o joinIn.folder \o <<"/">> \o joinIn.file
        /\ JoinWellFormed => joinOut[1] = OneSlashJoin(joinIn)
        /\ joinIn = JoinExample =>
             joinOut[1] = <<"/", "x", "/", "A", "/", "b.mp4">>

\* C5 witness: the example has been joined.
C5_Witness ==
  /\ joinIn = JoinExample
  /\ joinOut = Some(<<"/", "x", "/", "A", "/", "b.mp4">>)

(***************************************************************************)
(* DetailPanel, fetchDetail: the season marker of a title (part_000        *)
(* 284-312).  A title is a sequence whose elements are single characters   *)
(* ("di", "ji", "bu", the numerals "yi" .. "shi", digits, " ", "S", "s"),  *)
(* the word "Season" in some letter case, or fragments of other text.      *)
(***************************************************************************)
Digits == {"0", "1", "2", "3", "4", "5", "6", "7", "8", "9"}
DigitValue(c) ==
  CASE c = "0" -> 0 [] c = "1" -> 1 [] c = "2" -> 2 [] c = "3" -> 3
    [] c = "4" -> 4 [] c = "5" -> 5 [] c = "6" -> 6 [] c = "7" -> 7
    [] c = "8" -> 8 [] c = "9" -> 9
\* lines 304-307: chineseNumbers
CjkNumerals ==
  {"yi", "er", "san", "si", "wu", "liu", "qi", "ba", "jiu", "shi"}
ChineseNumber(c) ==
  CASE c = "yi" -> 1 [] c = "er" -> 2 [] c = "san" -> 3 [] c = "si" -> 4
    [] c = "wu" -> 5 [] c = "liu" -> 6 [] c = "qi" -> 7 [] c = "ba" -> 8
    [] c = "jiu" -> 9 [] c = "shi" -> 10
Spaces == {" "}
\* /Season/i and /S/i
SeasonWords == {"Season", "season", "SEASON"}
SLetters == {"S", "s"}

\* The last index of the longest run of elements of class C that starts at
\* index i of t (i - 1 when the run is empty): a greedy C* from i.
RECURSIVE RunEnd(_, _, _)
RunEnd(t, i, C) ==
  IF i <= Len(t) /\ t[i] \in C THEN RunEnd(t, i + 1, C) ELSE i - 1

NoMatch == [found |-> FALSE, from |-> 0, to |-> 0, group |-> <<>>]
Matched(t, i, j, g1, g2) ==
  [found |-> TRUE, from |-> i, to |-> j, group |-> SubSeq(t, g1, g2)]

\* line 291: /di([yi-shi\d]+)[ji bu]/ tried at index i
CjkAt(t, i) ==
  LET e == RunEnd(t, i + 1, CjkNumerals \cup Digits)
  IN  IF t[i] = "di" /\ e >= i + 1 /\ e + 1 <= Len(t) /\ t[e + 1] \in {"ji", "bu"}
      THEN Matched(t, i, e + 1, i + 1, e)
      ELSE NoMatch
\* line 292: /Season\s*(\d+)/i tried at index i
SeasonAt(t, i) ==
  LET w == RunEnd(t, i + 1, Spaces)
      e == RunEnd(t, w + 1, Digits)
  IN  IF t[i] \in SeasonWords /\ e >= w + 1
      THEN Matched(t, i, e, w + 1, e)
      ELSE NoMatch
\* line 293: /S(\d+)/i tried at index i
SAt(t, i) ==
  LET e == RunEnd(t, i + 1, Digits)
  IN  IF t[i] \in SLetters /\ e >= i + 1
      THEN Matched(t, i, e, i + 1, e)
      ELSE NoMatch

\* lines 290-294: seasonPatterns, in order.
PatternAt(k, t, i) ==
  CASE k = 1 -> CjkAt(t, i)
    [] k = 2 -> SeasonAt(t, i)
    [] k = 3 -> SAt(t, i)

\* line 297: title.match(pattern), the leftmost match.
Match(k, t) ==
  LET hits == {i \in 1..Len(t) : PatternAt(k, t, i).found}
  IN  IF hits = {} THEN NoMatch
      ELSE PatternAt(k, t, CHOOSE i \in hits : \A j \in hits : i <= j)

\* String.prototype.trim
RECURSIVE TrimStart(_)
TrimStart(t) == IF t # <<>> /\ Head(t) \in Spaces THEN TrimStart(Tail(t)) ELSE t
RECURSIVE TrimEnd(_)
TrimEnd(t) ==
  IF t # <<>> /\ t[Len(t)] \in Spaces
  THEN TrimEnd(SubSeq(t, 1, Len(t) - 1))
  ELSE t
Trim(t) == TrimEnd(TrimStart(t))

\* line 299: title.replace(pattern, '').trim()
RemoveMatch(t, m) == Trim(SubSeq(t, 1, m.from - 1) \o SubSeq(t, m.to + 1, Len(t)))

\* parseInt(text): the value of the leading digits, optional (NaN is Null).
RECURSIVE DigitsValue(_, _)
DigitsValue(ds, acc) ==
  IF ds = <<>> THEN acc ELSE DigitsValue(Tail(ds), 10 * acc + DigitValue(Head(ds)))
ParseInt(text) ==
  LET t == TrimStart(text)
      e == RunEnd(t, 1, Digits)
  IN  IF e = 0 THEN Null ELSE Some(DigitsValue(SubSeq(t, 1, e), 0))

\* a || b on optional numbers: 0, NaN and undefined are falsy.
Falsy(n) == n = Null \/ n[1] = 0
OrElse(a, b) == IF Falsy(a) THEN b ELSE a
\* a || b on texts: the empty text is falsy.
TextOr(a, b) == IF a = <<>> THEN b ELSE a

\* line 308: chineseNumbers[seasonStr] || parseInt(seasonStr) || undefined
SeasonOfGroup(g) ==
  OrElse(OrElse(IF Len(g) = 1 /\ g[1] \in CjkNumerals
                THEN Some(ChineseNumber(g[1])) ELSE Null,
                ParseInt(g)),
         Null)

\* line 301: !extractedSeasonNumber
NotSupplied(seasonNumber) == Falsy(seasonNumber)

\* The first pattern, in order, that matches the title (0 when none does).
FirstPattern(t) ==
  IF Match(1, t).found THEN 1
  ELSE IF Match(2, t).found THEN 2
  ELSE IF Match(3, t).found THEN 3
  ELSE 0

\* lines 286-312: searchTitle and extractedSeasonNumber.
ExtractSeason(title, seasonNumber) ==
  LET k == FirstPattern(title)
  IN  IF k = 0 THEN [searchTitle |-> title, season |-> seasonNumber]
      ELSE [searchTitle |-> RemoveMatch(title, Match(k, title)),
            season |-> IF NotSupplied(seasonNumber)
                       THEN SeasonOfGroup(Match(k, title).group)
                       ELSE seasonNumber]

(***************************************************************************)
(* SpecSeason: lines 286-312 as a function of title and seasonNumber.      *)
(***************************************************************************)
MaxTitleLen == 3
TitleAlphabet == {"x", " ", "di", "ji", "er", "shi", "2", "0", "s", "SEASON"}
\* The example of the specification: jianwangchao di er ji.
TitleExample == <<"jianwangchao", "di", "er", "ji">>
\* The title search runs for non-empty titles only (line 284).
Titles == (TextsUpTo(TitleAlphabet, MaxTitleLen) \ {<<>>}) \cup {TitleExample}
\* seasonNumber?: number
SeasonNumbers == {Null, Some(0), Some(3)}

InitSeason ==
  /\ seasonIn \in [title : Titles, seasonNumber : SeasonNumbers]
  /\ seasonOut = Null
  /\ PlayIdle /\ JoinIdle /\ PanelIdle

\* lines 286-312 applied to the input.
Extract ==
  /\ seasonOut = Null
  /\ seasonOut' = Some(ExtractSeason(seasonIn.title, seasonIn.seasonNumber))
  /\ UNCHANGED <<seasonIn, playVars, joinVars, panelVars>>

NextSeason == Extract

SpecSeason == InitSeason /\ [][NextSeason]_vars

\* The marker found in the title under test: the leftmost match of the first
\* pattern, in the order CJK, Season, S, that matches.
MarkerFound == FirstPattern(seasonIn.title) # 0
Marker == Match(FirstPattern(seasonIn.title), seasonIn.title)
\* The captured text is decimal digits only.
AllDigits(g) == g # <<>> /\ \A i \in 1..Len(g) : g[i] \in Digits

\* C9 as stated: the first matching pattern alone is applied; the query is
\* the title without that marker, trimmed; without an explicitly supplied
\* season number the season is recovered from the marker (a numeral yi .. shi
\* gives 1 .. 10, captured digits give their value); an explicitly supplied
\* season number is never overridden; jianwangchao-di-er-ji without explicit
\* season gives season 2 and query jianwangchao.
C9_AsStated ==
  seasonOut # Null =>
    /\ MarkerFound =>
         seasonOut[1].searchTitle =
           Trim(SubSeq(seasonIn.title, 1, Marker.from - 1)
                \o SubSeq(seasonIn.title, Marker.to + 1, Len(seasonIn.title)))
    /\ (/\ MarkerFound
        /\ seasonIn.seasonNumber = Null
        /\ Len(Marker.group) = 1
        /\ Marker.group[1] \in CjkNumerals) =>
         seasonOut[1].season = Some(ChineseNumber(Marker.group[1]))
    /\ (/\ MarkerFound
        /\ seasonIn.seasonNumber = Null
        /\ AllDigits(Marker.group)
        /\ DigitsValue(Marker.group, 0) # 0) =>
         seasonOut[1].season = Some(DigitsValue(Marker.group, 0))
    /\ seasonIn.seasonNumber # Null =>
         \/ seasonOut[1].season = seasonIn.seasonNumber
         \/ Falsy(seasonIn.seasonNumber) /\ Falsy(seasonOut[1].season)
    /\ (seasonIn.title = TitleExample /\ seasonIn.seasonNumber = Null) =>
         seasonOut[1] = [searchTitle |-> <<"jianwangchao">>, season |-> Some(2)]

(***************************************************************************)
(* DetailPanel: the fetch effect and fetchDetail (part_000 174-395).       *)
(* A resolution is one run of fetchDetail; it works on the props of the    *)
(* render that started it and stops at every await.                        *)
(***************************************************************************)
Ids == {Null, Some(7)}
CmsDatas == {Null, Some([desc |-> <<>>]), Some([desc |-> <<"X">>])}
PanelTitles == {<<>>, <<"x">>, TitleExample, <<"x", " ", "s", "2">>}
AllProps ==
  [title : PanelTitles, doubanId : Ids, bangumiId : Ids, isBangumi : BOOLEAN,
   type : {"movie", "tv"}, seasonNumber : {Null, Some(3)}, cmsData : CmsDatas,
   sourceId : {"", "id1"}, source : {"", "src1"}]

\* fetch(...) then response.json(): the fetch rejects, or it gives a response
\* with ok false, or one with ok true whose body parses (Some) or does not.
Rejected == Throws("Failed to fetch")
NotOk == Returns([ok |-> FALSE, body |-> Null])
BadJson == Returns([ok |-> TRUE, body |-> Null])
Ok(body) == Returns([ok |-> TRUE, body |-> Some(body)])
Failures == {Rejected, NotOk, BadJson}
SourceDetailOutcomes ==
  Failures \cup
  {Ok(b) : b \in [title : {<<>>, <<"T">>}, desc : {<<>>, <<"D">>}]}
BangumiOutcomes == Failures \cup {Ok([name |-> <<"N">>, summary |-> <<"B">>])}
DoubanOutcomes == Failures \cup {Ok([title |-> <<"N">>, intro |-> <<"I">>])}
TmdbSearchOutcomes ==
  Failures \cup
  {Ok([results |-> rs]) :
     rs \in {<<>>} \cup {<<[id |-> 5, media_type |-> m]>> : m \in {"", "movie", "tv"}}}
TmdbDetailOutcomes == Failures \cup {Ok([name |-> <<"N">>, overview |-> <<"O">>])}
TmdbSeasonOutcomes == Failures \cup {Ok([overview |-> o]) : o \in {<<>>, <<"SO">>}}

\* The message of the Error a settled fetch makes the code throw, given the
\* message the code uses for a response that is not ok.
ThrownMessage(o, notOkMessage) ==
  IF o.throws THEN o.message
  ELSE IF ~o.value.ok THEN notOkMessage
  ELSE "Unexpected end of JSON input"
\* The fetch gave a response with ok true and a body that parses.
GotBody(o) == ~o.throws /\ o.value.ok /\ o.value.body # Null

\* A run of fetchDetail started by the effect, with the props it closes over.
\* id counts the runs; the record a run builds carries it as `by`.  calls
\* lists the requests the run has sent, settled how each one ended.
NewRes(id, p) ==
  [id |-> id, props |-> p, pc |-> "begin", calls |-> <<>>, settled |-> <<>>,
   outcome |-> "pending", message |-> "", record |-> Null,
   season |-> Null, mediaType |-> "", tmdb |-> Null]
\* fetch(url): the run now awaits the response.
Call(r, to, arg, pc) ==
  [r EXCEPT !.pc = pc, !.calls = Append(@, [to |-> to, arg |-> arg])]
\* setDetailData(d) followed by return.
Succeed(r, source, title, intro) ==
  [r EXCEPT !.pc = "done", !.outcome = "record",
            !.record = Some([by |-> r.id, source |-> source,
                             title |-> title, intro |-> intro])]
\* throw new Error(m), caught at line 386.
Fail(r, m) == [r EXCEPT !.pc = "done", !.outcome = "error", !.message = m]

\* lines 225-385 up to the first await: the choice among Bangumi, Douban
\* and the title search.
Decide(r) ==
  LET p == r.props IN
  IF p.bangumiId # Null \/ (p.isBangumi /\ p.doubanId # Null)
  THEN Call(r, "bangumi", IF p.bangumiId # Null THEN p.bangumiId ELSE p.doubanId,
            "bangumi")
  ELSE IF p.doubanId # Null /\ ~p.isBangumi
  THEN Call(r, "douban", p.doubanId, "douban")
  ELSE IF p.title # <<>>
  THEN LET x == ExtractSeason(p.title, p.seasonNumber)
       IN  [Call(r, "tmdb/search", x.searchTitle, "tmdbSearch")
             EXCEPT !.season = x.season]
  ELSE Fail(r, "missing query parameters")

\* line 187 never taken.
MutUsesInlineDesc(p) == FALSE

\* lines 186-187: cmsData && cmsData.desc
UsesInlineDesc(p) == p.cmsData # Null /\ p.cmsData[1].desc # <<>>

\* lines 186, 200: cmsData without desc, sourceId && source
UsesSourceDetail(p) == p.cmsData # Null /\ p.sourceId # "" /\ p.source # ""

\* lines 183-227 up to the first await.
Begin(r) ==
  IF UsesInlineDesc(r.props)
  THEN Succeed(r, "cms", r.props.title, r.props.cmsData[1].desc)
  ELSE IF UsesSourceDetail(r.props)
  THEN Call(r, "source-detail", r.props.sourceId, "sourceDetail")
  ELSE Decide(r)

\* A step-2 failure thrown to the catch of line 386.
MutSourceDetailFailed(r, o) == Fail(r, ThrownMessage(o, "source-detail failed"))

\* lines 205, 216-222: the response is not ok, or the inner catch took the
\* exception: execution continues at line 225.
SourceDetailFailed(r, o) == Decide(r)

\* lines 202-222
SourceDetailSettled(r, o) ==
  IF GotBody(o)
  THEN Succeed(r, "source-detail", TextOr(o.value.body[1].title, r.props.title),
               TextOr(o.value.body[1].desc, <<>>))
  ELSE SourceDetailFailed(r, o)

\* A failed id lookup falling through to the title search.
MutLookupFailed(r, o, notOkMessage) ==
  IF r.props.title # <<>>
  THEN Call(r, "tmdb/search", r.props.title, "tmdbSearch")
  ELSE Fail(r, ThrownMessage(o, notOkMessage))

\* lines 228-230, 255-257: throw, caught at line 386.
LookupFailed(r, o, notOkMessage) == Fail(r, ThrownMessage(o, notOkMessage))

\* lines 227-249
BangumiSettled(r, o) ==
  IF GotBody(o)
  THEN Succeed(r, "bangumi", o.value.body[1].name, o.value.body[1].summary)
  ELSE LookupFailed(r, o, "bangumi detail failed")

\* lines 254-280
DoubanSettled(r, o) ==
  IF GotBody(o)
  THEN Succeed(r, "douban", o.value.body[1].title, o.value.body[1].intro)
  ELSE LookupFailed(r, o, "douban detail failed")

\* lines 314-328, 382
TmdbSearchSettled(r, o) ==
  IF ~GotBody(o) THEN Fail(r, ThrownMessage(o, "search failed"))
  ELSE IF o.value.body[1].results = <<>> THEN Fail(r, "nothing found")
  ELSE LET result == o.value.body[1].results[1]
           mediaType == IF result.media_type # "" THEN result.media_type
                        ELSE r.props.type
       IN  [Call(r, "tmdb/detail", [id |-> result.id, type |-> mediaType],
                 "tmdbDetail")
             EXCEPT !.mediaType = mediaType]

\* lines 328-340, 349-379
TmdbDetailSettled(r, o) ==
  IF ~GotBody(o) THEN Fail(r, ThrownMessage(o, "tmdb detail failed"))
  ELSE IF ~Falsy(r.season) /\ r.mediaType = "tv"
  THEN [Call(r, "tmdb/seasons", r.season, "tmdbSeason")
         EXCEPT !.tmdb = o.value.body]
  ELSE Succeed(r, "tmdb", o.value.body[1].name, o.value.body[1].overview)

\* lines 341-379: a failed season request is logged and ignored.
TmdbSeasonSettled(r, o) ==
  Succeed(r, "tmdb", r.tmdb[1].name,
          IF GotBody(o) THEN TextOr(o.value.body[1].overview, r.tmdb[1].overview)
          ELSE r.tmdb[1].overview)

\* How a fetch ended.
Kind(o) ==
  IF o.throws THEN "rejected"
  ELSE IF ~o.value.ok THEN "notOk"
  ELSE IF o.value.body = Null THEN "badJson"
  ELSE "ok"

\* A run that is not the newest one writes nothing.
MutPublishLatestOnly(r2) ==
  IF r2.id = Len(res)
  THEN /\ detailData' = IF r2.outcome = "record" THEN r2.record ELSE detailData
       /\ error' = IF r2.outcome = "error" THEN Some(r2.message) ELSE error
       /\ loading' = IF r2.pc = "done" THEN FALSE ELSE loading
  ELSE UNCHANGED <<detailData, error, loading>>

\* A run that ends with a record clears the error.
MutPublishClearsError(r2) ==
  /\ detailData' = IF r2.outcome = "record" THEN r2.record ELSE detailData
  /\ error' = IF r2.outcome = "error" THEN Some(r2.message)
              ELSE IF r2.outcome = "record" THEN Null ELSE error
  /\ loading' = IF r2.pc = "done" THEN FALSE ELSE loading

\* The display state after run r has gone on to r2: setDetailData (lines 189,
\* 207, 233, 260, 349), setError (line 388), setLoading(false) (lines 195,
\* 214, 390).
Publish(r2) ==
  /\ detailData' = IF r2.outcome = "record" THEN r2.record ELSE detailData
  /\ error' = IF r2.outcome = "error" THEN Some(r2.message) ELSE error
  /\ loading' = IF r2.pc = "done" THEN FALSE ELSE loading

\* lines 174-182, 394: the effect runs with isOpen true and starts a run,
\* which goes on to its first await.
StartResolution(p) ==
  LET r == Begin(NewRes(Len(res) + 1, p))
  IN  /\ res' = Append(res, r)
      /\ detailData' = IF r.outcome = "record" THEN r.record ELSE detailData
      /\ error' = IF r.outcome = "error" THEN Some(r.message) ELSE Null
      /\ loading' = (r.pc # "done")

\* isOpen becomes true; the effect (dependency isOpen) runs.  At most cap
\* runs are started in a behaviour.
Open(cap) ==
  /\ ~isOpen
  /\ Len(res) < cap
  /\ isOpen' = TRUE
  /\ StartResolution(props)
  /\ UNCHANGED <<props, playVars, joinVars, seasonVars>>

\* isOpen becomes false; the effect runs and returns at line 176.  It has no
\* cleanup: the runs in flight go on.
Close ==
  /\ isOpen
  /\ isOpen' = FALSE
  /\ UNCHANGED <<props, detailData, loading, error, res,
                 playVars, joinVars, seasonVars>>

\* Run i goes on from its await to r2.
Resume(i, o, r2) ==
  /\ res' = [res EXCEPT ![i] = [r2 EXCEPT !.settled = Append(@, Kind(o))]]
  /\ Publish(r2)
  /\ UNCHANGED <<isOpen, props, playVars, joinVars, seasonVars>>

SourceDetailSettles(i, o) ==
  res[i].pc = "sourceDetail" /\ Resume(i, o, SourceDetailSettled(res[i], o))
BangumiSettles(i, o) ==
  res[i].pc = "bangumi" /\ Resume(i, o, BangumiSettled(res[i], o))
DoubanSettles(i, o) ==
  res[i].pc = "douban" /\ Resume(i, o, DoubanSettled(res[i], o))
TmdbSearchSettles(i, o) ==
  res[i].pc = "tmdbSearch" /\ Resume(i, o, TmdbSearchSettled(res[i], o))
TmdbDetailSettles(i, o) ==
  res[i].pc = "tmdbDetail" /\ Resume(i, o, TmdbDetailSettled(res[i], o))
TmdbSeasonSettles(i, o) ==
  res[i].pc = "tmdbSeason" /\ Resume(i, o, TmdbSeasonSettled(res[i], o))

(***************************************************************************)
(* SpecDetail: the panel is mounted closed with any props, is opened and   *)
(* closed, and one resolution runs, whatever its props.                    *)
(***************************************************************************)
InitDetail ==
  /\ isOpen = FALSE
  /\ props \in AllProps
  /\ detailData = Null
  /\ loading = FALSE
  /\ error = Null
  /\ res = <<>>
  /\ PlayIdle /\ JoinIdle /\ SeasonIdle

NextDetail ==
  \/ Open(1)
  \/ Close
  \/ \E i \in 1..Len(res), o \in SourceDetailOutcomes : SourceDetailSettles(i, o)
  \/ \E i \in 1..Len(res), o \in BangumiOutcomes : BangumiSettles(i, o)
  \/ \E i \in 1..Len(res), o \in DoubanOutcomes : DoubanSettles(i, o)
  \/ \E i \in 1..Len(res), o \in TmdbSearchOutcomes : TmdbSearchSettles(i, o)
  \/ \E i \in 1..Len(res), o \in TmdbDetailOutcomes : TmdbDetailSettles(i, o)
  \/ \E i \in 1..Len(res), o \in TmdbSeasonOutcomes : TmdbSeasonSettles(i, o)

SpecDetail == InitDetail /\ [][NextDetail]_vars

\* The place of a source in the order of precedence.
Rank(to) ==
  CASE to = "cms" -> 0
    [] to = "source-detail" -> 1
    [] to = "bangumi" -> 2
    [] to = "douban" -> 3
    [] to \in {"tmdb", "tmdb/search", "tmdb/detail", "tmdb/seasons"} -> 4
\* The place of a request in the order of the requests.
CallRank(to) ==
  CASE to = "tmdb/detail" -> 5
    [] to = "tmdb/seasons" -> 6
    [] OTHER -> Rank(to)
\* The branches that apply to props p.
InlineApplies(p) == p.cmsData # Null /\ p.cmsData[1].desc # <<>>
SourceDetailApplies(p) ==
  /\ p.cmsData # Null /\ p.cmsData[1].desc = <<>>
  /\ p.sourceId # "" /\ p.source # ""
BangumiApplies(p) == p.bangumiId # Null \/ (p.isBangumi /\ p.doubanId # Null)
DoubanApplies(p) == p.doubanId # Null /\ ~p.isBangumi
\* The sources of rank below k that must have been passed before a source of
\* rank k is asked: none of them applies, except that the source-detail
\* lookup may have been asked first and not have given a record.
Passed(r, k) ==
  /\ ~InlineApplies(r.props)
  /\ SourceDetailApplies(r.props) =>
       /\ r.calls[1].to = "source-detail"
       /\ k > 1 => (Len(r.settled) >= 1 /\ r.settled[1] # "ok")
  /\ k > 2 => ~BangumiApplies(r.props)
  /\ k > 3 => ~DoubanApplies(r.props)

\* C6: in a resolution the sources are asked in the order CMS synopsis,
\* source-detail, Bangumi, Douban, TMDB, a source being asked only when no
\* earlier one applies (or the source-detail lookup gave no record); once a
\* source has given the record no later request is sent; with a non-empty
\* cmsData.desc the record's synopsis is that desc and no request is sent.
C6_Precedence ==
  \A i \in 1..Len(res) :
    LET r == res[i] IN
    /\ \A j \in 1..Len(r.calls) :
         /\ Passed(r, Rank(r.calls[j].to))
         /\ r.calls[j].to = "source-detail" => SourceDetailApplies(r.props)
         /\ r.calls[j].to = "bangumi" => BangumiApplies(r.props)
         /\ r.calls[j].to = "douban" => DoubanApplies(r.props)
         /\ Rank(r.calls[j].to) = 4 => r.props.title # <<>>
         /\ j > 1 => CallRank(r.calls[j - 1].to) < CallRank(r.calls[j].to)
    /\ r.outcome = "record" =>
         /\ r.pc = "done"
         /\ \A j \in 1..Len(r.calls) :
              Rank(r.calls[j].to) <= Rank(r.record[1].source)
         /\ Len(r.settled) = Len(r.calls)
         /\ r.calls # <<>> =>
              Rank(r.calls[Len(r.calls)].to) = Rank(r.record[1].source)
    /\ InlineApplies(r.props) =>
         /\ r.calls = <<>>
         /\ r.outcome = "record"
         /\ r.record[1].source = "cms"
         /\ r.record[1].intro = r.props.cmsData[1].desc
         /\ detailData = r.record

\* C6 witness: the source-detail lookup failed, Douban gave the record, and
\* no TMDB request was sent although a title is there.
C6_Witness ==
  /\ Len(res) = 1
  /\ res[1].props.title # <<>>
  /\ [j \in 1..Len(res[1].calls) |-> res[1].calls[j].to] = <<"source-detail", "douban">>
  /\ res[1].outcome = "record"
  /\ res[1].record[1].source = "douban"

\* The request of run r that was sent last.
LastCall(r) == r.calls[Len(r.calls)]
\* Run r sent a request to TMDB.
AskedTmdb(r) == \E j \in 1..Len(r.calls) : Rank(r.calls[j].to) = 4

\* C7: a Bangumi or Douban lookup answered with a non-OK status ends the
\* resolution in the error state with a non-empty message; the resolution
\* gives no record and sends no TMDB request, with or without a title.
C7_LookupFailureTerminal ==
  \A i \in 1..Len(res) :
    LET r == res[i] IN
    /\ \A j \in 1..Len(r.calls) :
         r.calls[j].to \in {"bangumi", "douban"} => j = Len(r.calls)
    /\ (/\ r.calls # <<>>
        /\ LastCall(r).to \in {"bangumi", "douban"}
        /\ Len(r.settled) = Len(r.calls)
        /\ r.settled[Len(r.settled)] = "notOk") =>
         /\ r.pc = "done"
         /\ r.outcome = "error"
         /\ r.message # ""
         /\ r.record = Null
         /\ ~AskedTmdb(r)
         /\ error = Some(r.message)
         /\ detailData = Null
         /\ ~loading

\* C7 witness: with a title at hand, the Douban lookup was answered non-OK
\* and the resolution ended in the error state.
C7_Witness ==
  /\ Len(res) = 1
  /\ res[1].props.title # <<>>
  /\ res[1].calls # <<>>
  /\ Len(res[1].settled) = Len(res[1].calls)
  /\ LastCall(res[1]).to = "douban"
  /\ res[1].settled[Len(res[1].settled)] = "notOk"
  /\ res[1].pc = "done"
  /\ error # Null

\* C8: a source-detail lookup that rejects, is answered non-OK or gives no
\* readable body does not put the resolution in the error state; the
\* resolution goes on with the choice among Bangumi, Douban and the title
\* search that its props alone determine.
C8_SourceDetailRecoverable ==
  \A i \in 1..Len(res) :
    LET r == res[i]
        p == r.props
    IN  (/\ Len(r.settled) >= 1
         /\ r.calls[1].to = "source-detail"
         /\ r.settled[1] # "ok") =>
          /\ IF BangumiApplies(p)
             THEN Len(r.calls) >= 2 /\ r.calls[2] = [to |-> "bangumi",
                    arg |-> IF p.bangumiId # Null THEN p.bangumiId ELSE p.doubanId]
             ELSE IF DoubanApplies(p)
             THEN Len(r.calls) >= 2 /\ r.calls[2] = [to |-> "douban", arg |-> p.doubanId]
             ELSE IF p.title # <<>>
             THEN Len(r.calls) >= 2 /\ r.calls[2].to = "tmdb/search"
             ELSE /\ Len(r.calls) = 1
                  /\ r.outcome = "error"
                  /\ r.message = "missing query parameters"
          /\ Len(r.settled) = 1 /\ Len(r.calls) >= 2 =>
               /\ r.outcome = "pending"
               /\ error = Null
               /\ loading

\* C8 witness: the source-detail fetch rejected and the resolution went on to
\* ask Bangumi, with no error shown.
C8_Witness ==
  /\ Len(res) = 1
  /\ Len(res[1].calls) = 2
  /\ res[1].calls[1].to = "source-detail"
  /\ res[1].settled = <<"rejected">>
  /\ res[1].calls[2].to = "bangumi"
  /\ error = Null

\* C10 as stated: while the panel is closed, no step changes detailData,
\* error or loading: what a resolution started before the close brings back
\* is dropped.
C10_ClosedPanelUntouched ==
  [][(~isOpen /\ ~isOpen') => UNCHANGED <<detailData, error, loading>>]_vars

(***************************************************************************)
(* SpecRace: the panel is opened, closed and re-opened and its props       *)
(* change while it is open, so that up to MaxRes resolutions overlap.      *)
(***************************************************************************)
MaxRes == 2

\* Props that take a run through the inline description, through source
\* detail and on to Douban, through Bangumi, and to the throw of line 385.
NoProps ==
  [title |-> <<>>, doubanId |-> Null, bangumiId |-> Null, isBangumi |-> FALSE,
   type |-> "movie", seasonNumber |-> Null, cmsData |-> Null,
   sourceId |-> "", source |-> ""]
RaceProps ==
  { [NoProps EXCEPT !.title = <<"x">>, !.cmsData = Some([desc |-> <<"X">>])],
    [NoProps EXCEPT !.cmsData = Some([desc |-> <<>>]), !.sourceId = "id1",
                    !.source = "src1", !.doubanId = Some(7)],
    [NoProps EXCEPT !.isBangumi = TRUE, !.bangumiId = Some(7)],
    NoProps }

\* The parent renders the panel with other props.  Every prop of the model is
\* in the dependency list of line 395, so the effect runs: it returns at line
\* 176 when the panel is closed and starts a run otherwise.
SetProps(cap, p) ==
  /\ p # props
  /\ props' = p
  /\ IF isOpen
     THEN Len(res) < cap /\ StartResolution(p)
     ELSE UNCHANGED <<detailData, loading, error, res>>
  /\ UNCHANGED <<isOpen, playVars, joinVars, seasonVars>>

InitRace ==
  /\ isOpen = FALSE
  /\ props \in RaceProps
  /\ detailData = Null
  /\ loading = FALSE
  /\ error = Null
  /\ res = <<>>
  /\ PlayIdle /\ JoinIdle /\ SeasonIdle

NextRace ==
  \/ Open(MaxRes)
  \/ Close
  \/ \E p \in RaceProps : SetProps(MaxRes, p)
  \/ \E i \in 1..Len(res), o \in SourceDetailOutcomes : SourceDetailSettles(i, o)
  \/ \E i \in 1..Len(res), o \in BangumiOutcomes : BangumiSettles(i, o)
  \/ \E i \in 1..Len(res), o \in DoubanOutcomes : DoubanSettles(i, o)

SpecRace == InitRace /\ [][NextRace]_vars

\* Run i has been started and has not reached the end of fetchDetail.
InFlight(i) == res[i].pc # "done"
AllCompleted == res # <<>> /\ \A i \in 1..Len(res) : ~InFlight(i)
LatestRun == Len(res)

\* Run i ends in this step, with a record or with an error.
Completes(i) == InFlight(i) /\ res'[i].pc = "done"
CompletesWithRecord(i) == Completes(i) /\ res'[i].outcome = "record"
CompletesWithError(i) == Completes(i) /\ res'[i].outcome = "error"
\* A run is started in this step.
Starts == Len(res') = Len(res) + 1

\* C11: starting a resolution cancels none of the earlier ones (a run in
\* flight stays in flight, as it was), and every resolution that ends with a
\* record writes it to detailData, whether or not a later resolution has been
\* started or has ended: the record displayed is that of the last response
\* to arrive.
C11_LastArrivalWins ==
  [][ /\ Starts => \A i \in 1..Len(res) : res'[i] = res[i]
      /\ \A i \in 1..Len(res) :
           CompletesWithRecord(i) => detailData' = res'[i].record ]_vars

\* Every resolution has ended, the newest one with a record, and detailData
\* is the record of an earlier one.
C11_Witness ==
  /\ Len(res) >= 2
  /\ AllCompleted
  /\ res[LatestRun].outcome = "record"
  /\ detailData # Null
  /\ detailData[1].by # LatestRun

\* C12 as stated: in every reachable state, overlapping resolutions
\* included, loading is true exactly when some started resolution has not
\* ended.
C12_LoadingIffInFlight ==
  loading <=> \E i \in 1..Len(res) : InFlight(i)

\* lines 436-448: the record is rendered.
SuccessView == ~loading /\ error = Null /\ detailData # Null

\* C13: only the start of a resolution takes the error message away.  A
\* resolution that ends with a record sets detailData to it and loading to
\* false and leaves error as it was, so that with an error left by another
\* resolution the record is not rendered; a resolution that ends with an
\* error leaves detailData as it was.
C13_ErrorClearedOnlyAtStart ==
  [][ /\ (error # Null /\ error' = Null) => Starts
      /\ \A i \in 1..Len(res) :
           CompletesWithRecord(i) =>
             /\ error' = error
             /\ detailData' = res'[i].record
             /\ ~loading'
             /\ (error # Null => ~SuccessView')
      /\ \A i \in 1..Len(res) :
           CompletesWithError(i) => detailData' = detailData ]_vars

\* An earlier resolution has failed after the newest one was started (its
\* message is still there) and the newest one has ended, after a fetch, with
\* its record in detailData: nothing is loading, and the record is not
\* rendered.
C13_Witness ==
  /\ AllCompleted
  /\ \E i \in 1..(LatestRun - 1) :
       res[i].outcome = "error" /\ error = Some(res[i].message)
  /\ res[LatestRun].outcome = "record"
  /\ res[LatestRun].calls # <<>>
  /\ detailData = res[LatestRun].record
  /\ ~loading
  /\ ~SuccessView

====
